---- MODULE Spec2Model ----
(***************************************************************************)
(* A model of the binary-buffer library: the built-in type codecs          *)
(* (src/src/types.ts), the buffer helpers (src/src/util.ts) and the        *)
(* BufferBuilder (src/src/buffers.ts).                                     *)
(*                                                                         *)
(* Representation                                                          *)
(*   - an ArrayBuffer is a sequence of bytes (0..255); byte k of the       *)
(*     buffer (zero-based) is element k+1 of the sequence;                 *)
(*   - a JS number is an integer, except the values of the uint32 codec    *)
(*     and the results of DataView.getUint32, which do not fit the         *)
(*     checker's integers and are written in base 65536 as <<hi, lo>>      *)
(*     (the number hi * 65536 + lo);                                       *)
(*   - a JS string is the sequence of its Unicode code points;             *)
(*   - a JS array is a sequence;                                           *)
(*   - a call that may throw returns [ok |-> TRUE, val |-> v] or           *)
(*     [ok |-> FALSE, val |-> <<>>] (a RangeError).                        *)
(***************************************************************************)
EXTENDS Integers, Sequences, FiniteSets, TLC

\* Longest list and longest string the codec inputs are drawn from.
MaxLen == 3

-----------------------------------------------------------------------------
(* Results of calls that may throw *)

Ok(v) == [ok |-> TRUE, val |-> v]

Throw == [ok |-> FALSE, val |-> <<>>]

-----------------------------------------------------------------------------
(* ArrayBuffer and DataView primitives *)

Min(a, b) == IF a < b THEN a ELSE b

Max(a, b) == IF a > b THEN a ELSE b

\* ArrayBuffer.prototype.slice(begin, end) for 0 <= begin: both ends are
\* clamped to the length, the result holds bytes begin .. end-1.
Slice(buf, begin, end) ==
  LET b == Min(begin, Len(buf))
      e == Min(Max(end, 0), Len(buf))
  IN  IF e <= b THEN <<>> ELSE SubSeq(buf, b + 1, e)

\* ArrayBuffer.prototype.slice(begin): to the end of the buffer.
SliceFrom(buf, begin) == Slice(buf, begin, Len(buf))

\* DataView.setUint8 / setInt8: the value modulo 2^8.
SetInt8(v) == << v % 256 >>

\* DataView.setUint16 / setInt16 (big-endian): the value modulo 2^16.
SetInt16(v) == << (v \div 256) % 256, v % 256 >>

\* DataView.setInt32 / setUint32 (big-endian) of a number that fits the
\* checker's integers: the value modulo 2^32.
SetInt32(v) ==
  << (v \div 16777216) % 256, (v \div 65536) % 256, (v \div 256) % 256, v % 256 >>

\* DataView.setUint32 (big-endian) of a number written <<hi, lo>>.
SetUint32W(w) == SetInt16(w[1]) \o SetInt16(w[2])

GetUint8(buf) == buf[1]

GetInt8(buf) == IF buf[1] >= 128 THEN buf[1] - 256 ELSE buf[1]

GetUint16(buf) == buf[1] * 256 + buf[2]

GetInt16(buf) ==
  LET u == buf[1] * 256 + buf[2] IN IF u >= 32768 THEN u - 65536 ELSE u

GetInt32(buf) ==
  LET hi == buf[1] * 256 + buf[2]
      lo == buf[3] * 256 + buf[4]
  IN  (IF hi >= 32768 THEN hi - 65536 ELSE hi) * 65536 + lo

\* DataView.getUint32 (big-endian), written <<hi, lo>>.
GetUint32W(buf) == << buf[1] * 256 + buf[2], buf[3] * 256 + buf[4] >>

\* i < w for a small integer i (below 65536) and a number w written <<hi, lo>>.
LessW(i, w) == w[1] > 0 \/ i < w[2]

-----------------------------------------------------------------------------
(* util.ts *)

RECURSIVE concatenateBackwards(_)
\* A concatenation that puts the last buffer first; C13 tells it from
\* concatenateArrayBuffers.
concatenateBackwards(buffers) ==
  IF buffers = <<>> THEN <<>>
  ELSE concatenateBackwards(Tail(buffers)) \o Head(buffers)

RECURSIVE concatenateArrayBuffers(_)
\* concatenateArrayBuffers(...buffers): a new buffer holding the buffers'
\* bytes, one buffer after the other.
concatenateArrayBuffers(buffers) ==
  IF buffers = <<>> THEN <<>>
  ELSE Head(buffers) \o concatenateArrayBuffers(Tail(buffers))

-----------------------------------------------------------------------------
(* TextEncoder / TextDecoder (UTF-8) *)

\* The UTF-8 bytes of one code point.
Utf8Bytes(cp) ==
  IF cp < 128 THEN << cp >>
  ELSE IF cp < 2048 THEN << 192 + (cp \div 64), 128 + (cp % 64) >>
  ELSE IF cp < 65536 THEN
    << 224 + (cp \div 4096), 128 + ((cp \div 64) % 64), 128 + (cp % 64) >>
  ELSE << 240 + (cp \div 262144), 128 + ((cp \div 4096) % 64),
          128 + ((cp \div 64) % 64), 128 + (cp % 64) >>

RECURSIVE TextEncode(_)
\* new TextEncoder().encode(s)
TextEncode(s) ==
  IF s = <<>> THEN <<>> ELSE Utf8Bytes(Head(s)) \o TextEncode(Tail(s))

RECURSIVE Utf8Decode(_, _, _, _, _, _)
\* The UTF-8 decoder of the Encoding standard, from byte i (one-based) of
\* bytes, with the code point cp under construction, `needed` continuation
\* bytes outstanding and the next continuation byte expected in lo..hi.  A
\* malformed sequence decodes to U+FFFD (65533).
Utf8Decode(bytes, i, cp, needed, lo, hi) ==
  IF i > Len(bytes) THEN (IF needed = 0 THEN <<>> ELSE << 65533 >>)
  ELSE LET b == bytes[i] IN
    IF needed = 0 THEN
      IF b < 128 THEN << b >> \o Utf8Decode(bytes, i + 1, 0, 0, 128, 191)
      ELSE IF b >= 194 /\ b <= 223 THEN
        Utf8Decode(bytes, i + 1, b % 32, 1, 128, 191)
      ELSE IF b >= 224 /\ b <= 239 THEN
        Utf8Decode(bytes, i + 1, b % 16, 2,
                   IF b = 224 THEN 160 ELSE 128, IF b = 237 THEN 159 ELSE 191)
      ELSE IF b >= 240 /\ b <= 244 THEN
        Utf8Decode(bytes, i + 1, b % 8, 3,
                   IF b = 240 THEN 144 ELSE 128, IF b = 244 THEN 143 ELSE 191)
      ELSE << 65533 >> \o Utf8Decode(bytes, i + 1, 0, 0, 128, 191)
    ELSE IF b < lo \/ b > hi THEN
      << 65533 >> \o Utf8Decode(bytes, i, 0, 0, 128, 191)
    ELSE IF needed = 1 THEN
      << cp * 64 + (b % 64) >> \o Utf8Decode(bytes, i + 1, 0, 0, 128, 191)
    ELSE Utf8Decode(bytes, i + 1, cp * 64 + (b % 64), needed - 1, 128, 191)

\* new TextDecoder().decode(bytes): UTF-8, malformed input replaced, and a
\* leading byte order mark (U+FEFF, 65279) dropped (ignoreBOM is false).
TextDecode(bytes) ==
  LET s == Utf8Decode(bytes, 1, 0, 0, 128, 191)
  IN  IF s # <<>> /\ Head(s) = 65279 THEN Tail(s) ELSE s

-----------------------------------------------------------------------------
(* types.ts: the built-in type definitions.  A TypeDefinition is a record  *)
(* of its name, its byteLength and a tag, codec, that selects its          *)
(* serialize and deserialize functions: <<"uint8">>, ..., <<"string">>,    *)
(* or <<"array", T>> for array(T).                                         *)

uint8 == [name |-> "uint8", byteLength |-> 1, codec |-> <<"uint8">>]

uint16 == [name |-> "uint16", byteLength |-> 2, codec |-> <<"uint16">>]

uint32 == [name |-> "uint32", byteLength |-> 4, codec |-> <<"uint32">>]

int8 == [name |-> "int8", byteLength |-> 1, codec |-> <<"int8">>]

int16 == [name |-> "int16", byteLength |-> 2, codec |-> <<"int16">>]

int32 == [name |-> "int32", byteLength |-> 4, codec |-> <<"int32">>]

boolean == [name |-> "boolean", byteLength |-> 1, codec |-> <<"boolean">>]

string == [name |-> "string", byteLength |-> 2, codec |-> <<"string">>]

array(type) ==
  [name |-> type.name \o "[]", byteLength |-> 4, codec |-> <<"array", type>>]

uint8Serialize(value) == SetInt8(value)

uint8Deserialize(buffer) ==
  IF Len(buffer) < 1 THEN Throw ELSE Ok(GetUint8(buffer))

uint16Serialize(value) == SetInt16(value)

uint16Deserialize(buffer) ==
  IF Len(buffer) < 2 THEN Throw ELSE Ok(GetUint16(buffer))

uint32Serialize(value) == SetUint32W(value)

uint32Deserialize(buffer) ==
  IF Len(buffer) < 4 THEN Throw ELSE Ok(GetUint32W(buffer))

int8Serialize(value) == SetInt8(value)

\* A decoder that reads the byte unsigned, as uint8 does; C6 tells it from
\* int8Deserialize on the negative half of the range.
int8DeserializeUnsigned(buffer) ==
  IF Len(buffer) < 1 THEN Throw ELSE Ok(GetUint8(buffer))

int8Deserialize(buffer) ==
  IF Len(buffer) < 1 THEN Throw ELSE Ok(GetInt8(buffer))

int16Serialize(value) == SetInt16(value)

int16Deserialize(buffer) ==
  IF Len(buffer) < 2 THEN Throw ELSE Ok(GetInt16(buffer))

int32Serialize(value) == SetInt32(value)

int32Deserialize(buffer) ==
  IF Len(buffer) < 4 THEN Throw ELSE Ok(GetInt32(buffer))

booleanSerialize(value) == SetInt8(IF value THEN 1 ELSE 0)

booleanDeserialize(buffer) ==
  IF Len(buffer) < 1 THEN Throw ELSE Ok(GetUint8(buffer) = 1)

\* string.serialize: the 2-byte length of the UTF-8 encoding, then the encoding.
stringSerialize(value) ==
  LET buffer == TextEncode(value)
      length == Len(buffer)
  IN  concatenateArrayBuffers(<< SetInt16(length), buffer >>)

\* string.deserialize: decodes buffer.slice(1, length + 1).
stringDeserialize(buffer) ==
  IF Len(buffer) < 2 THEN Throw
  ELSE LET length == GetUint16(buffer)
       IN  Ok(TextDecode(Slice(buffer, 1, length + 1)))

RECURSIVE serialize(_, _)
RECURSIVE deserialize(_, _)
RECURSIVE arrayDeserializeLoop(_, _, _, _, _, _)

\* array(type).serialize: the 4-byte element count, then each element's
\* type.serialize, concatenated.
arraySerialize(type, value) ==
  concatenateArrayBuffers(
    << SetInt32(Len(value)) >> \o [i \in 1 .. Len(value) |-> serialize(type, value[i])])

\* The loop of array(type).deserialize: element i is read from
\* buffer.slice(offset), and offset then grows by type.byteLength.
arrayDeserializeLoop(type, buffer, length, i, offset, values) ==
  IF ~LessW(i, length) THEN Ok(values)
  ELSE LET value == deserialize(type, SliceFrom(buffer, offset))
       IN  IF ~value.ok THEN Throw
           ELSE arrayDeserializeLoop(type, buffer, length, i + 1,
                                     offset + type.byteLength,
                                     Append(values, value.val))

\* A decoder that reads the elements from offset 0, over the count; C7 tells
\* it from arrayDeserialize on every non-empty list.
arrayDeserializeFromZero(type, buffer) ==
  IF Len(buffer) < 4 THEN Throw
  ELSE arrayDeserializeLoop(type, buffer, GetUint32W(buffer), 0, 0, <<>>)

arrayDeserialize(type, buffer) ==
  IF Len(buffer) < 4 THEN Throw
  ELSE arrayDeserializeLoop(type, buffer, GetUint32W(buffer), 0, 4, <<>>)

\* typeDef.serialize(value)
serialize(typeDef, value) ==
  LET c == typeDef.codec[1] IN
  CASE c = "uint8" -> uint8Serialize(value)
    [] c = "uint16" -> uint16Serialize(value)
    [] c = "uint32" -> uint32Serialize(value)
    [] c = "int8" -> int8Serialize(value)
    [] c = "int16" -> int16Serialize(value)
    [] c = "int32" -> int32Serialize(value)
    [] c = "boolean" -> booleanSerialize(value)
    [] c = "string" -> stringSerialize(value)
    [] c = "array" -> arraySerialize(typeDef.codec[2], value)

\* typeDef.deserialize(buffer)
deserialize(typeDef, buffer) ==
  LET c == typeDef.codec[1] IN
  CASE c = "uint8" -> uint8Deserialize(buffer)
    [] c = "uint16" -> uint16Deserialize(buffer)
    [] c = "uint32" -> uint32Deserialize(buffer)
    [] c = "int8" -> int8Deserialize(buffer)
    [] c = "int16" -> int16Deserialize(buffer)
    [] c = "int32" -> int32Deserialize(buffer)
    [] c = "boolean" -> booleanDeserialize(buffer)
    [] c = "string" -> stringDeserialize(buffer)
    [] c = "array" -> arrayDeserialize(typeDef.codec[2], buffer)

-----------------------------------------------------------------------------
(* The inputs the codecs are applied to *)

\* Bytes at and next to the ends of the unsigned and the signed range.
EdgeBytes == {0, 1, 127, 128, 255}

\* All sequences over S of length at most n.
SeqsUpTo(S, n) == UNION {[1 .. k -> S] : k \in 0 .. n}

\* Code points of 1, 2, 3 and 4 UTF-8 bytes: a, e-acute, the euro sign, an emoji.
CodePoints == {97, 233, 8364, 128512}

JohnDoe == << 74, 111, 104, 110, 32, 68, 111, 101 >>

Strings == SeqsUpTo(CodePoints, MaxLen) \cup {JohnDoe}

RECURSIVE ValuesOf(_)
\* Values in the declared range of a type definition.
ValuesOf(typeDef) ==
  LET c == typeDef.codec[1] IN
  CASE c = "uint8" -> 0 .. 255
    [] c = "int8" -> -128 .. 127
    [] c = "uint16" -> {hi * 256 + lo : hi \in EdgeBytes, lo \in EdgeBytes}
    [] c = "int16" ->
         {GetInt16(<<hi, lo>>) : hi \in EdgeBytes, lo \in EdgeBytes}
    [] c = "uint32" ->
         {GetUint32W(<<a, b, 0, d>>) : a \in EdgeBytes, b \in EdgeBytes, d \in EdgeBytes}
    [] c = "int32" ->
         {GetInt32(<<a, b, 0, d>>) : a \in EdgeBytes, b \in EdgeBytes, d \in EdgeBytes}
    [] c = "boolean" -> BOOLEAN
    [] c = "string" -> Strings
    [] c = "array" ->
         LET inner == typeDef.codec[2] IN
         IF inner.codec[1] = "uint8" THEN SeqsUpTo({0, 1, 2, 3, 255}, MaxLen)
         ELSE IF inner.codec[1] = "int16" THEN SeqsUpTo({-32768, -1, 0, 256}, MaxLen)
         ELSE IF inner.codec[1] = "boolean" THEN SeqsUpTo(BOOLEAN, MaxLen)
         ELSE IF inner.codec[1] = "string" THEN
           SeqsUpTo({<<>>, <<97>>, <<97, 233>>}, MaxLen)
         ELSE SeqsUpTo({<<>>, <<3>>, <<1, 2>>}, MaxLen)

FixedWidthTypes == {uint8, uint16, uint32, int8, int16, int32, boolean}

CodecTypes ==
  FixedWidthTypes \cup
  {string, array(uint8), array(int16), array(boolean), array(string),
   array(array(uint8))}

-----------------------------------------------------------------------------
(* State *)

VARIABLES
  littleEndian,  \* the platform's byte order, which Int32Array uses
  types,         \* BufferBuilder.types: a JS object, type name -> TypeDefinition
  buffer,        \* BufferBuilder.buffer: the data buffer
  offset,        \* BufferBuilder.offset: the write cursor
  heap,          \* every other ArrayBuffer, by identity: concatenated buffers, copies
  built,         \* the objects createBuffer has returned
  wrappers,      \* the functions createWrapper has returned (their descr)
  wrapped,       \* the objects the wrapper functions have returned
  last,          \* the last call and what it returned or threw
  history,       \* (history) the set calls made through builder accessors
  regOrder,      \* (history) the type names in the order of first registration
  copyOf,        \* (history) for each buffer made by copy(): its source
  writes,        \* (history) the number of bytes the caller wrote into buffers
  calls,         \* (history) the number of calls made so far
  cType, cValue, cBytes, cResult, cPc  \* a codec applied to a value

bvars ==
  << littleEndian, types, buffer, offset, heap, built, wrappers, wrapped, last,
     history, regOrder, copyOf, writes, calls >>

cvars == << cType, cValue, cBytes, cResult, cPc >>

vars == << bvars, cvars >>

-----------------------------------------------------------------------------
(* JS objects.  An object is the sequence of its [key, val] entries in the *)
(* order Object.keys enumerates them: keys that are canonical array        *)
(* indices ("0", "1", ...) first, in ascending numeric order, then the     *)
(* other string keys in the order they were first assigned.                *)

\* The array indices the model spells (one digit).
IndexKeys == {ToString(i) : i \in 0 .. 9}

IndexValue(k) == CHOOSE i \in 0 .. 9 : ToString(i) = k

Keys(obj) == [i \in 1 .. Len(obj) |-> obj[i].key]

Values(obj) == [i \in 1 .. Len(obj) |-> obj[i].val]

Has(obj, k) == \E i \in 1 .. Len(obj) : obj[i].key = k

Get(obj, k) == obj[CHOOSE i \in 1 .. Len(obj) : obj[i].key = k].val

\* Array.prototype.indexOf: the zero-based position of x in seq, or -1.
IndexOf(seq, x) ==
  IF \E i \in 1 .. Len(seq) : seq[i] = x
  THEN (CHOOSE i \in 1 .. Len(seq) : seq[i] = x /\ \A j \in 1 .. i - 1 : seq[j] # x) - 1
  ELSE -1

\* The number of entries that stay in front of a new key k.
InsertAfter(obj, k) ==
  IF k \in IndexKeys
  THEN Cardinality({i \in 1 .. Len(obj) :
                      obj[i].key \in IndexKeys /\ IndexValue(obj[i].key) < IndexValue(k)})
  ELSE Len(obj)

\* delete obj[k]; obj[k] = v: an existing key moves to the place of a new
\* key; C9 tells it from Put when a name is registered again.
PutAfterDelete(obj, k, v) ==
  LET rest == SelectSeq(obj, LAMBDA e : e.key # k)
      n == InsertAfter(rest, k)
  IN  SubSeq(rest, 1, n) \o << [key |-> k, val |-> v] >> \o SubSeq(rest, n + 1, Len(rest))

\* obj[k] = v: an existing key keeps its place, a new key takes the place
\* the enumeration order gives it.
Put(obj, k, v) ==
  IF Has(obj, k)
  THEN [i \in 1 .. Len(obj) |-> IF obj[i].key = k THEN [key |-> k, val |-> v] ELSE obj[i]]
  ELSE LET n == InsertAfter(obj, k)
       IN  SubSeq(obj, 1, n) \o << [key |-> k, val |-> v] >> \o SubSeq(obj, n + 1, Len(obj))

-----------------------------------------------------------------------------
(* Typed arrays *)

Reverse(seq) == [i \in 1 .. Len(seq) |-> seq[Len(seq) + 1 - i]]

\* buf with bytes written at byte offset off (Uint8Array.prototype.set).
WriteAt(buf, off, bytes) ==
  [i \in 1 .. Len(buf) |->
     IF i > off /\ i <= off + Len(bytes) THEN bytes[i - off] ELSE buf[i]]

\* new Int32Array(typeIds).buffer: each number in the platform's byte order.
Int32ArrayBuffer(typeIds) ==
  concatenateArrayBuffers(
    [i \in 1 .. Len(typeIds) |->
       IF littleEndian THEN Reverse(SetInt32(typeIds[i])) ELSE SetInt32(typeIds[i])])

\* Array.from(new Int32Array(input, 0, length)): a RangeError when the
\* buffer is shorter than 4 * length bytes.
Int32ArrayOf(input, length) ==
  IF 4 * length > Len(input) THEN Throw
  ELSE Ok([i \in 1 .. length |->
             LET b == SubSeq(input, 4 * i - 3, 4 * i)
             IN  GetInt32(IF littleEndian THEN Reverse(b) ELSE b)])

-----------------------------------------------------------------------------
(* Bounds and inputs of the builder *)

\* new BufferBuilder(bufferSize): the capacity of the data buffer.
bufferSize == 19

\* The most objects createBuffer and build functions return in one run.
MaxBuilt == 2

\* The most wrapper functions created, and the most objects they return.
MaxWrappers == 1

MaxWrapped == 2

\* The most copy() calls, set calls and caller's byte writes in one run.
MaxCopies == 1

MaxSets == 3

MaxWrites == 1

\* The most calls in one run.
MaxCalls == 6

\* User-defined types: one named by an array index, one that takes the
\* name of a built-in type.
custom7 == [name |-> "7", byteLength |-> 1, codec |-> <<"uint8">>]

customInt8 == [name |-> "int8", byteLength |-> 1, codec |-> <<"uint8">>]

Field(k, typeName) == [key |-> k, val |-> typeName]

\* The type definitions registered and the descriptors used under Spec.
TypeInputs == {int8, string}

DescriptorInputs ==
  { << Field("age", "int8"), Field("name", "string") >>,
    << Field("age", "int8") >> }

\* The type definitions registered and the descriptors used under
\* RegistrySpec.
RegistryTypeInputs == {int8, string, custom7, customInt8}

RegistryDescriptorInputs ==
  DescriptorInputs \cup
    {<< Field("x", "string"), Field("y", "int8") >>, << Field("age", "float64") >>}

\* A user-defined type whose name is the empty string.
customEmpty == [name |-> "", byteLength |-> 1, codec |-> <<"uint8">>]

\* The type definitions registered and the descriptors used under HeaderSpec.
HeaderTypeInputs == {int8, customEmpty}

HeaderDescriptorInputs == {<< Field("age", "int8") >>, << Field("age", "") >>}

\* The values set through an accessor of a type.
SampleValues(typeDef) ==
  LET c == typeDef.codec[1] IN
  CASE c = "int8" -> {25}
    [] c = "uint8" -> {25, 200}
    [] c = "string" -> {JohnDoe}

\* The bytes and the places a caller writes into a buffer it holds.
RawBytes == {255}

RawOffsets == {0, 3}

-----------------------------------------------------------------------------
(* BufferBuilder *)

\* One more call of the run; the codec variables are not the builder's.
Call == calls < MaxCalls /\ calls' = calls + 1 /\ UNCHANGED cvars

\* new BufferBuilder(bufferSize): a zeroed data buffer, the cursor at 0, no
\* type registered.
BuilderInit ==
  /\ littleEndian \in BOOLEAN
  /\ types = <<>>
  /\ buffer = [i \in 1 .. bufferSize |-> 0]
  /\ offset = 0
  /\ heap = <<>>
  /\ built = <<>>
  /\ wrappers = <<>>
  /\ wrapped = <<>>
  /\ last = [op |-> "new"]
  /\ history = <<>>
  /\ regOrder = <<>>
  /\ copyOf = {}
  /\ writes = 0
  /\ calls = 0

Init ==
  /\ BuilderInit
  /\ cType = uint8
  /\ cValue = 0
  /\ cBytes = <<>>
  /\ cResult = Throw
  /\ cPc = "idle"

\* registerType(typeDef): this.types[typeDef.name] = typeDef
registerType(typeDef) ==
  /\ Call
  /\ types' = Put(types, typeDef.name, typeDef)
  /\ regOrder' = IF IndexOf(regOrder, typeDef.name) = -1
                 THEN Append(regOrder, typeDef.name) ELSE regOrder
  /\ last' = [op |-> "registerType", typeDef |-> typeDef]
  /\ UNCHANGED << littleEndian, buffer, offset, heap, built, wrappers, wrapped,
                  history, copyOf, writes >>

\* The typeIds of createBuffer: for each type name of the descriptor its
\* position in Object.keys(this.types), -1 for a name that is not a key.
TypeIds(descriptor) ==
  [i \in 1 .. Len(descriptor) |-> IndexOf(Keys(types), descriptor[i].val)]

\* A createBuffer that leaves out the fields whose type is not registered
\* instead of throwing; C11 tells it from createBufferResult.
createBufferResultOfKnown(descriptor) ==
  LET known == SelectSeq(descriptor, LAMBDA f : Has(types, f.val)) IN
  Ok([concatenatedBuffer |->
        concatenateArrayBuffers(<< Int32ArrayBuffer(TypeIds(known)), buffer >>),
      ops |-> [i \in 1 .. Len(known) |->
                 [key |-> known[i].key, val |-> Get(types, known[i].val)]]])

\* What createBuffer(descriptor) returns: the concatenated buffer and the
\* accessors, each key with the type definition its closure holds.  It
\* throws when a type name is not registered.
createBufferResult(descriptor) ==
  LET typeIds == TypeIds(descriptor) IN
  IF \E i \in 1 .. Len(typeIds) : typeIds[i] = -1 THEN Throw
  ELSE Ok([concatenatedBuffer |->
             concatenateArrayBuffers(<< Int32ArrayBuffer(typeIds), buffer >>),
           ops |-> [i \in 1 .. Len(descriptor) |->
                      [key |-> descriptor[i].key,
                       val |-> Get(types, descriptor[i].val)]]])

\* A set that moves the cursor also when it throws; C17 tells it from
\* builderSet.
builderSetMovingOnError(buf, off, typeDef, value) ==
  LET bytes == serialize(typeDef, value)
      withLength == WriteAt(buf, off, SetInt32(Len(bytes)))
  IN  IF off + 4 + Len(bytes) > Len(buf)
      THEN [ok |-> FALSE, buffer |-> buf, offset |-> off + 4 + Len(bytes)]
      ELSE [ok |-> TRUE, buffer |-> WriteAt(withLength, off + 4, bytes),
            offset |-> off + 4 + Len(bytes)]

\* A set that writes at the start of the data buffer, as if every buffer
\* had a cursor of its own; C16 tells it from builderSet.
builderSetAtStart(buf, off, typeDef, value) ==
  LET bytes == serialize(typeDef, value)
  IN  IF 4 + Len(bytes) > Len(buf) THEN [ok |-> FALSE, buffer |-> buf, offset |-> off]
      ELSE [ok |-> TRUE,
            buffer |-> WriteAt(WriteAt(buf, 0, SetInt32(Len(bytes))), 4, bytes),
            offset |-> 4 + Len(bytes)]

\* set of an accessor made by createBuffer, on the builder's data buffer buf
\* and cursor off: the 4-byte length at off, the bytes at off + 4, the cursor
\* moved past both.  setUint32 and new Uint8Array throw a RangeError past
\* the end of the buffer; the first may already have written the length.
builderSet(buf, off, typeDef, value) ==
  LET bytes == serialize(typeDef, value)
      withLength == WriteAt(buf, off, SetInt32(Len(bytes)))
  IN  IF off + 4 > Len(buf) THEN [ok |-> FALSE, buffer |-> buf, offset |-> off]
      ELSE IF off + 4 + Len(bytes) > Len(buf)
        THEN [ok |-> FALSE, buffer |-> withLength, offset |-> off]
      ELSE [ok |-> TRUE, buffer |-> WriteAt(withLength, off + 4, bytes),
            offset |-> off + 4 + Len(bytes)]

\* get of an accessor made by createBuffer:
\* typeDef.deserialize(concatenatedBuffer.slice(this.offset))
builderGet(concatenatedBuffer, off, typeDef) ==
  deserialize(typeDef, SliceFrom(concatenatedBuffer, off))

\* createBuffer(descriptor)
createBuffer(descriptor) ==
  \E r \in {createBufferResult(descriptor)} :
  /\ Call
  /\ Len(built) < MaxBuilt
  /\ IF r.ok
     THEN /\ heap' = Append(heap, r.val.concatenatedBuffer)
          /\ built' = Append(built, [buffer |-> Len(heap) + 1, ops |-> r.val.ops,
                                     descriptor |-> descriptor])
          /\ last' = [op |-> "createBuffer", ok |-> TRUE, obj |-> Len(built) + 1,
                      typeNames |-> Values(descriptor)]
     ELSE /\ UNCHANGED << heap, built >>
          /\ last' = [op |-> "createBuffer", ok |-> FALSE, descriptor |-> descriptor]
  /\ UNCHANGED << littleEndian, types, buffer, offset, wrappers, wrapped, history,
                  regOrder, copyOf, writes >>

\* built[b].ops[k].set(value)
opsSet(b, k, value) ==
  \E r \in {builderSet(buffer, offset, Get(built[b].ops, k), value)} :
  /\ Call
  /\ Len(history) < MaxSets
  /\ buffer' = r.buffer
  /\ offset' = r.offset
  /\ history' = Append(history, [via |-> "builder", obj |-> b, key |-> k, val |-> value, ok |-> r.ok])
  /\ last' = [op |-> "set", ok |-> r.ok, obj |-> b, key |-> k]
  /\ UNCHANGED << littleEndian, types, heap, built, wrappers, wrapped, regOrder,
                  copyOf, writes >>

\* built[b].ops[k].get()
opsGet(b, k) ==
  /\ Call
  /\ last' = [op |-> "get", obj |-> b, key |-> k,
              ret |-> builderGet(heap[built[b].buffer], offset, Get(built[b].ops, k))]
  /\ UNCHANGED << littleEndian, types, buffer, offset, heap, built, wrappers,
                  wrapped, history, regOrder, copyOf, writes >>

RECURSIVE buildSets(_, _, _, _, _)
\* The loop of a build function: ops[key].set(value) for each entry of
\* properties, in the order of Object.entries(properties), on the state
\* st = [ok, buffer, offset, history]; a set that throws ends the loop.
buildSets(st, obj, ops, properties, i) ==
  IF i > Len(properties) \/ ~st.ok THEN st
  ELSE LET r == builderSet(st.buffer, st.offset, Get(ops, properties[i].key),
                           properties[i].val)
       IN  buildSets([ok |-> r.ok, buffer |-> r.buffer, offset |-> r.offset,
                      history |->
                        Append(st.history,
                               [via |-> "builder", obj |-> obj, key |-> properties[i].key,
                                val |-> properties[i].val, ok |-> r.ok])],
                     obj, ops, properties, i + 1)

\* createBuild(descriptor)(properties): createBuffer, then every property set.
build(descriptor, properties) ==
  \E r \in {createBufferResult(descriptor)} :
    /\ Call
    /\ Len(built) < MaxBuilt
    /\ Len(history) + Len(properties) <= MaxSets
    /\ IF ~r.ok
       THEN /\ UNCHANGED << heap, built, buffer, offset, history >>
            /\ last' = [op |-> "build", ok |-> FALSE, descriptor |-> descriptor]
       ELSE \E st \in {buildSets([ok |-> TRUE, buffer |-> buffer, offset |-> offset,
                                  history |-> history],
                                 Len(built) + 1, r.val.ops, properties, 1)} :
              /\ buffer' = st.buffer
              /\ offset' = st.offset
              /\ history' = st.history
              /\ IF st.ok
                 THEN /\ heap' = Append(heap, r.val.concatenatedBuffer)
                      /\ built' = Append(built, [buffer |-> Len(heap) + 1,
                                                 ops |-> r.val.ops,
                                                 descriptor |-> descriptor])
                 ELSE UNCHANGED << heap, built >>
              /\ last' = [op |-> "build", ok |-> st.ok, obj |-> Len(built) + 1,
                          typeNames |-> Values(descriptor)]
    /\ UNCHANGED << littleEndian, types, wrappers, wrapped, regOrder, copyOf, writes >>

\* A properties object for the accessors ops (of one or two fields): every
\* field once, in the order f, with the values v.
Properties(ops, f, v) ==
  [i \in 1 .. Len(ops) |-> [key |-> ops[f[i]].key, val |-> v[f[i]]]]

Orders(n) == {f \in [1 .. n -> 1 .. n] : \A i, j \in 1 .. n : f[i] = f[j] => i = j}

\* A copy that returns the input buffer itself; C10 tells it from copy.
copyAlias(h, input) == [heap |-> h, buffer |-> input]

\* copy(input)(): a new ArrayBuffer of input's length holding input's bytes.
\* The heap after the call and the identity of the buffer returned.
copy(h, input) == [heap |-> Append(h, h[input]), buffer |-> Len(h) + 1]

\* obj.copy() of an object returned by createBuffer, a build function or a
\* wrapper function, whose buffer is input.
callCopy(input) ==
  \E r \in {copy(heap, input)} :
  /\ Call
  /\ Cardinality(copyOf) < MaxCopies
  /\ heap' = r.heap
  /\ copyOf' = copyOf \cup {[copy |-> r.buffer, source |-> input, history |-> history]}
  /\ last' = [op |-> "copy", source |-> input, buffer |-> r.buffer]
  /\ UNCHANGED << littleEndian, types, buffer, offset, built, wrappers, wrapped,
                  history, regOrder, writes >>

\* createWrapper(descriptor): the function returned holds descr, a clone.
createWrapper(descriptor) ==
  /\ Call
  /\ Len(wrappers) < MaxWrappers
  /\ wrappers' = Append(wrappers, [descr |-> descriptor, descriptor |-> descriptor])
  /\ last' = [op |-> "createWrapper"]
  /\ UNCHANGED << littleEndian, types, buffer, offset, heap, built, wrapped,
                  history, regOrder, copyOf, writes >>

\* A wrapper function that takes its types from the names its descriptor
\* declares, not from the header; C12 tells it from wrapperTypes.
wrapperTypesByName(descr, input) ==
  LET header == Int32ArrayOf(input, Len(descr)) IN
  IF ~header.ok THEN Throw
  ELSE IF \E i \in 1 .. Len(descr) : ~Has(types, descr[i].val) THEN Throw
  ELSE Ok([i \in 1 .. Len(descr) |-> Get(types, descr[i].val)])

\* The types of a wrapper function: the type definition at position typeId
\* of Object.keys(this.types) for each of the first Object.keys(descr).length
\* 32-bit integers of input.  A RangeError when input is too short, an Error
\* when Object.keys(this.types)[typeId] is falsy: undefined for a typeId that
\* names no key, or the empty string.
wrapperTypes(descr, input) ==
  LET header == Int32ArrayOf(input, Len(descr)) IN
  IF ~header.ok THEN Throw
  ELSE IF \E i \in 1 .. Len(header.val) :
            \/ header.val[i] < 0
            \/ header.val[i] >= Len(types)
            \/ Keys(types)[header.val[i] + 1] = ""
    THEN Throw
  ELSE Ok([i \in 1 .. Len(header.val) |-> types[header.val[i] + 1].val])

RECURSIVE wrapperDescr(_, _, _)
\* descr after the loop of a wrapper function: descr[key] = typeDef.name for
\* each [key, typeDef] of Object.entries(types), key being "0", "1", ...
wrapperDescr(descr, typeDefs, i) ==
  IF i > Len(typeDefs) THEN descr
  ELSE wrapperDescr(Put(descr, ToString(i - 1), typeDefs[i].name), typeDefs, i + 1)

\* ops after the loop of a wrapper function: ops[key] for the same keys.
wrapperOps(typeDefs) ==
  [i \in 1 .. Len(typeDefs) |-> [key |-> ToString(i - 1), val |-> typeDefs[i]]]

\* wrappers[wr](input)
wrap(wr, input) ==
  \E r \in {wrapperTypes(wrappers[wr].descr, heap[input])} :
  /\ Call
  /\ Len(wrapped) < MaxWrapped
  /\ IF r.ok
     THEN /\ wrappers' = [wrappers EXCEPT ![wr].descr = wrapperDescr(@, r.val, 1)]
          /\ wrapped' = Append(wrapped,
                               [buffer |-> input, ops |-> wrapperOps(r.val),
                                offset |-> 4 * Len(r.val), wrapper |-> wr])
          /\ last' = [op |-> "wrap", ok |-> TRUE, obj |-> Len(wrapped) + 1]
     ELSE /\ UNCHANGED << wrappers, wrapped >>
          /\ last' = [op |-> "wrap", ok |-> FALSE, wrapper |-> wr, input |-> input]
  /\ UNCHANGED << littleEndian, types, buffer, offset, heap, built, history,
                  regOrder, copyOf, writes >>

\* set of an accessor made by a wrapper function, on the input buffer buf and
\* the wrapper's cursor off: the bytes at off, the cursor moved past them.
wrapperSet(buf, off, typeDef, value) ==
  LET bytes == serialize(typeDef, value) IN
  IF off + Len(bytes) > Len(buf) THEN [ok |-> FALSE, buffer |-> buf, offset |-> off]
  ELSE [ok |-> TRUE, buffer |-> WriteAt(buf, off, bytes), offset |-> off + Len(bytes)]

\* get of an accessor made by a wrapper function:
\* typeDef.deserialize(input.slice(offset))
wrapperGet(buf, off, typeDef) == deserialize(typeDef, SliceFrom(buf, off))

\* wrapped[w].ops[k].set(value)
wrappedSet(w, k, value) ==
  \E r \in {wrapperSet(heap[wrapped[w].buffer], wrapped[w].offset,
                      Get(wrapped[w].ops, k), value)} :
  /\ Call
  /\ Len(history) < MaxSets
  /\ heap' = [heap EXCEPT ![wrapped[w].buffer] = r.buffer]
  /\ wrapped' = [wrapped EXCEPT ![w].offset = r.offset]
  /\ history' = Append(history, [via |-> "wrapper", obj |-> w, key |-> k,
                                 val |-> value, ok |-> r.ok])
  /\ last' = [op |-> "wrappedSet", ok |-> r.ok, obj |-> w, key |-> k]
  /\ UNCHANGED << littleEndian, types, buffer, offset, built, wrappers, regOrder,
                  copyOf, writes >>

\* wrapped[w].ops[k].get()
wrappedGet(w, k) ==
  /\ Call
  /\ last' = [op |-> "wrappedGet", obj |-> w, key |-> k,
              ret |-> wrapperGet(heap[wrapped[w].buffer], wrapped[w].offset,
                                 Get(wrapped[w].ops, k))]
  /\ UNCHANGED << littleEndian, types, buffer, offset, heap, built, wrappers,
                  wrapped, history, regOrder, copyOf, writes >>

\* The caller writes one byte into an ArrayBuffer it was given (the buffer
\* of a returned object, or a copy): new Uint8Array(buf)[at] = byte.
writeByte(input, at, byte) ==
  /\ Call
  /\ writes < MaxWrites
  /\ at < Len(heap[input])
  /\ heap' = [heap EXCEPT ![input] = WriteAt(@, at, << byte >>)]
  /\ writes' = writes + 1
  /\ last' = [op |-> "write", buffer |-> input]
  /\ UNCHANGED << littleEndian, types, buffer, offset, built, wrappers, wrapped,
                  history, regOrder, copyOf >>

Next ==
  \/ \E typeDef \in TypeInputs : registerType(typeDef)
  \/ \E descriptor \in DescriptorInputs : createBuffer(descriptor)
  \/ \E descriptor \in DescriptorInputs :
       \E r \in {createBufferResult(descriptor)} :
         IF ~r.ok THEN build(descriptor, <<>>)
         ELSE \E f \in Orders(Len(r.val.ops)) :
                \E v1 \in SampleValues(r.val.ops[1].val) :
                  \E v2 \in SampleValues(r.val.ops[Len(r.val.ops)].val) :
                    build(descriptor, Properties(r.val.ops, f, << v1, v2 >>))
  \/ \E b \in 1 .. Len(built) : \E i \in 1 .. Len(built[b].ops) :
       \E value \in SampleValues(built[b].ops[i].val) :
         opsSet(b, built[b].ops[i].key, value)
  \/ \E b \in 1 .. Len(built) : \E i \in 1 .. Len(built[b].ops) :
       opsGet(b, built[b].ops[i].key)
  \/ \E input \in {built[b].buffer : b \in 1 .. Len(built)}
                    \cup {wrapped[w].buffer : w \in 1 .. Len(wrapped)} :
       callCopy(input)
  \/ \E descriptor \in DescriptorInputs : createWrapper(descriptor)
  \/ \E wr \in 1 .. Len(wrappers) : \E input \in 1 .. Len(heap) : wrap(wr, input)
  \/ \E w \in 1 .. Len(wrapped) : \E i \in 1 .. Len(wrapped[w].ops) :
       \E value \in SampleValues(wrapped[w].ops[i].val) :
         wrappedSet(w, wrapped[w].ops[i].key, value)
  \/ \E w \in 1 .. Len(wrapped) : \E i \in 1 .. Len(wrapped[w].ops) :
       wrappedGet(w, wrapped[w].ops[i].key)
  \/ \E input \in 1 .. Len(heap) : \E at \in RawOffsets : \E byte \in RawBytes :
       writeByte(input, at, byte)

Spec == Init /\ [][Next]_vars

\* The registry alone: types are registered and buffers created.
RegistryNext ==
  \/ \E typeDef \in RegistryTypeInputs : registerType(typeDef)
  \/ \E descriptor \in RegistryDescriptorInputs : createBuffer(descriptor)

RegistrySpec == Init /\ [][RegistryNext]_vars

\* Buffers, their copies and their wrappers: every call but build functions
\* and the builder accessors' get.
WrapperNext ==
  \/ \E typeDef \in TypeInputs : registerType(typeDef)
  \/ \E descriptor \in DescriptorInputs : createBuffer(descriptor)
  \/ \E b \in 1 .. Len(built) : \E i \in 1 .. Len(built[b].ops) :
       \E value \in SampleValues(built[b].ops[i].val) :
         opsSet(b, built[b].ops[i].key, value)
  \/ \E input \in {built[b].buffer : b \in 1 .. Len(built)}
                    \cup {wrapped[w].buffer : w \in 1 .. Len(wrapped)} :
       callCopy(input)
  \/ \E descriptor \in DescriptorInputs : createWrapper(descriptor)
  \/ \E wr \in 1 .. Len(wrappers) : \E input \in 1 .. Len(heap) : wrap(wr, input)
  \/ \E w \in 1 .. Len(wrapped) : \E i \in 1 .. Len(wrapped[w].ops) :
       \E value \in SampleValues(wrapped[w].ops[i].val) :
         wrappedSet(w, wrapped[w].ops[i].key, value)
  \/ \E w \in 1 .. Len(wrapped) : \E i \in 1 .. Len(wrapped[w].ops) :
       wrappedGet(w, wrapped[w].ops[i].key)
  \/ \E input \in 1 .. Len(heap) : \E at \in RawOffsets : \E byte \in RawBytes :
       writeByte(input, at, byte)

WrapperSpec == Init /\ [][WrapperNext]_vars

\* The builder alone: types, buffers, build functions and the builder
\* accessors.
BuilderNext ==
  \/ \E typeDef \in TypeInputs : registerType(typeDef)
  \/ \E descriptor \in DescriptorInputs : createBuffer(descriptor)
  \/ \E descriptor \in DescriptorInputs :
       \E r \in {createBufferResult(descriptor)} :
         IF ~r.ok THEN build(descriptor, <<>>)
         ELSE \E f \in Orders(Len(r.val.ops)) :
                \E v1 \in SampleValues(r.val.ops[1].val) :
                  \E v2 \in SampleValues(r.val.ops[Len(r.val.ops)].val) :
                    build(descriptor, Properties(r.val.ops, f, << v1, v2 >>))
  \/ \E b \in 1 .. Len(built) : \E i \in 1 .. Len(built[b].ops) :
       \E value \in SampleValues(built[b].ops[i].val) :
         opsSet(b, built[b].ops[i].key, value)
  \/ \E b \in 1 .. Len(built) : \E i \in 1 .. Len(built[b].ops) :
       opsGet(b, built[b].ops[i].key)

BuilderSpec == Init /\ [][BuilderNext]_vars

\* Buffers and the wrapper functions applied to them, with a type whose name
\* is the empty string among the registered ones.
HeaderNext ==
  \/ \E typeDef \in HeaderTypeInputs : registerType(typeDef)
  \/ \E descriptor \in HeaderDescriptorInputs : createBuffer(descriptor)
  \/ \E descriptor \in HeaderDescriptorInputs : createWrapper(descriptor)
  \/ \E wr \in 1 .. Len(wrappers) : \E input \in 1 .. Len(heap) : wrap(wr, input)
  \/ \E w \in 1 .. Len(wrapped) : \E i \in 1 .. Len(wrapped[w].ops) :
       \E value \in SampleValues(wrapped[w].ops[i].val) :
         wrappedSet(w, wrapped[w].ops[i].key, value)
  \/ \E input \in 1 .. Len(heap) : \E at \in RawOffsets : \E byte \in RawBytes :
       writeByte(input, at, byte)

HeaderSpec == Init /\ [][HeaderNext]_vars

-----------------------------------------------------------------------------
(* concatenateArrayBuffers applied to buffers the caller holds *)

\* The most buffers passed in one call.
MaxArgs == 3

\* The caller holds two buffers, of bytes 1..3 and of bytes 4..6.  No typed
\* array wider than a byte is used, so one byte order is enough.
ConcatInit ==
  /\ littleEndian = FALSE
  /\ types = <<>>
  /\ buffer = [i \in 1 .. bufferSize |-> 0]
  /\ offset = 0
  /\ heap \in {<< b1, b2 >> : b1 \in SeqsUpTo({1, 2, 3}, MaxLen),
                               b2 \in SeqsUpTo({4, 5, 6}, MaxLen)}
  /\ built = <<>>
  /\ wrappers = <<>>
  /\ wrapped = <<>>
  /\ last = [op |-> "new"]
  /\ history = <<>>
  /\ regOrder = <<>>
  /\ copyOf = {}
  /\ writes = 0
  /\ calls = 0
  /\ cType = uint8
  /\ cValue = 0
  /\ cBytes = <<>>
  /\ cResult = Throw
  /\ cPc = "idle"

\* concatenateArrayBuffers(...buffers) on the buffers with identities args:
\* the result is a new buffer.
concatenate(args) ==
  /\ Call
  /\ last.op = "new"
  /\ heap' = Append(heap,
                    concatenateArrayBuffers([i \in 1 .. Len(args) |-> heap[args[i]]]))
  /\ last' = [op |-> "concatenate", buffers |-> args, result |-> Len(heap) + 1]
  /\ UNCHANGED << littleEndian, types, buffer, offset, built, wrappers, wrapped,
                  history, regOrder, copyOf, writes >>

ConcatNext == \E args \in SeqsUpTo(1 .. Len(heap), MaxArgs) : concatenate(args)

ConcatSpec == ConcatInit /\ [][ConcatNext]_vars

-----------------------------------------------------------------------------
(* A codec applied to a value: serialize, then deserialize *)

CodecInit ==
  /\ BuilderInit
  /\ cType \in CodecTypes
  /\ cValue \in ValuesOf(cType)
  /\ cBytes = <<>>
  /\ cResult = Throw
  /\ cPc = "value"

\* bytes = typeDef.serialize(value)
CodecSerialize ==
  /\ cPc = "value"
  /\ cBytes' = serialize(cType, cValue)
  /\ cPc' = "serialized"
  /\ UNCHANGED << bvars, cType, cValue, cResult >>

\* result = typeDef.deserialize(bytes)
CodecDeserialize ==
  /\ cPc = "serialized"
  /\ cResult' = deserialize(cType, cBytes)
  /\ cPc' = "deserialized"
  /\ UNCHANGED << bvars, cType, cValue, cBytes >>

CodecNext == CodecSerialize \/ CodecDeserialize

CodecSpec == CodecInit /\ [][CodecNext]_vars


-----------------------------------------------------------------------------
(* Claims about the codecs, checked under CodecSpec *)

\* C5: the string codec round-trips: string.serialize(s) is the 2-byte
\* length of the UTF-8 encoding of s followed by that encoding, and
\* string.deserialize of it is s.
C5_StringRoundTrip ==
  cType = string =>
    /\ cPc # "value" =>
         cBytes = SetInt16(Len(TextEncode(cValue))) \o TextEncode(cValue)
    /\ cPc = "deserialized" => cResult.ok /\ cResult.val = cValue

\* C6: every fixed-width integer codec and the boolean codec serializes a
\* value of its range to exactly byteLength bytes and deserializes those
\* bytes to the value.
C6_FixedWidthRoundTrip ==
  cType \in FixedWidthTypes =>
    /\ cPc # "value" => Len(cBytes) = cType.byteLength
    /\ cPc = "deserialized" => cResult.ok /\ cResult.val = cValue

\* C6 witness: the smallest int8, the largest sampled uint32 or the smallest
\* int16 has been serialized and deserialized.
C6_Witness ==
  /\ cPc = "deserialized"
  /\ \/ cType = int8 /\ cValue = -128 /\ cBytes = << 128 >>
     \/ cType = uint32 /\ cValue = << 65535, 255 >> /\ cBytes = << 255, 255, 0, 255 >>
     \/ cType = int16 /\ cValue = -32768 /\ cBytes = << 128, 0 >>

FixedWidthArrayTypes == {array(uint8), array(int16), array(boolean)}

\* C7: for a fixed-width inner codec T, array(T).deserialize of
\* array(T).serialize(xs) is xs, the empty list included.
C7_ArrayRoundTrip ==
  (cType \in FixedWidthArrayTypes /\ cPc = "deserialized") =>
    cResult.ok /\ cResult.val = cValue

\* C7 witness: [1, 2, 3] has been encoded by array(uint8) as the count 3 and
\* the three bytes, and decoded.
C7_Witness ==
  /\ cPc = "deserialized"
  /\ cType = array(uint8)
  /\ cValue = <<1, 2, 3>>
  /\ cBytes = <<0, 0, 0, 3, 1, 2, 3>>

\* C8: with a variable-width inner codec, decoding advances by the bytes
\* each element occupies, so a list of two or more elements decodes back to
\* the list that was encoded.  Stated for the inner codec array(uint8),
\* whose own decoding is right (C7), as in the claim's example
\* array(array(uint8)) applied to [[1, 2], [3]].
C8_VariableWidthArrayRoundTrip ==
  (/\ cType = array(array(uint8))
   /\ Len(cValue) >= 2
   /\ cPc = "deserialized") =>
    cResult.ok /\ cResult.val = cValue

-----------------------------------------------------------------------------
(* Claims about the builder *)

\* The set calls of hist are exactly one successful set of each field of
\* built[b], through its accessors, in descriptor order.
SetInOrder(hist, b) ==
  /\ Len(hist) = Len(built[b].ops)
  /\ \A i \in 1 .. Len(hist) :
       /\ hist[i].via = "builder"
       /\ hist[i].obj = b
       /\ hist[i].key = built[b].ops[i].key
       /\ hist[i].ok

\* C1: on a fresh builder, once every field of a buffer has been set once in
\* descriptor order (through the accessors or by a build function), get of
\* each field returns the value that was set for that field.
C1_GetReturnsValueSet ==
  \A b \in 1 .. Len(built) :
    (/\ last.op = "get"
     /\ last.obj = b
     /\ SetInOrder(history, b)
     /\ writes = 0) =>
      /\ last.ret.ok
      /\ last.ret.val = history[IndexOf(Keys(built[b].ops), last.key) + 1].val

\* C2: when the fields of a buffer have been set, copy() called, and the copy
\* passed to a wrapper function made for the same descriptor, get of the
\* wrapped accessor of each field returns the value set for that field.
C2_BuildThenWrapRoundTrip ==
  \A w \in 1 .. Len(wrapped) : \A c \in copyOf : \A b \in 1 .. Len(built) :
    (/\ last.op = "wrappedGet"
     /\ last.obj = w
     /\ wrapped[w].buffer = c.copy
     /\ c.source = built[b].buffer
     /\ SetInOrder(c.history, b)
     /\ history = c.history
     /\ writes = 0
     /\ wrappers[wrapped[w].wrapper].descriptor = built[b].descriptor
     /\ IndexOf(Keys(wrapped[w].ops), last.key) < Len(built[b].ops)) =>
      /\ last.ret.ok
      /\ last.ret.val = c.history[IndexOf(Keys(wrapped[w].ops), last.key) + 1].val

\* C3: the object a wrapper function returns has exactly one accessor per
\* field of the descriptor given to createWrapper, each under its field's name.
C3_WrappedAccessorsNamedByField ==
  \A w \in 1 .. Len(wrapped) :
    Keys(wrapped[w].ops) = Keys(wrappers[wrapped[w].wrapper].descriptor)

\* The data region the claim C4 describes: for each set of hist, in order,
\* the 4-byte length of the payload and the payload.
RECURSIVE DataRegion(_, _)
DataRegion(hist, b) ==
  IF hist = <<>> THEN <<>>
  ELSE LET bytes == serialize(Get(built[b].ops, Head(hist).key), Head(hist).val)
       IN  SetInt32(Len(bytes)) \o bytes \o DataRegion(Tail(hist), b)

\* buf is the header of built[b] followed by a data region that starts with
\* the length-prefixed payloads of hist.
HasLayout(buf, hist, b) ==
  LET n == Len(built[b].ops)
      data == DataRegion(hist, b)
  IN  /\ Len(buf) >= 4 * n + Len(data)
      /\ SubSeq(buf, 1, 4 * n) =
           Int32ArrayBuffer([i \in 1 .. n |->
                               IndexOf(Keys(types), built[b].descriptor[i].val)])
      /\ SubSeq(buf, 4 * n + 1, 4 * n + Len(data)) = data

\* C4: after the fields of a buffer made on a fresh builder have been set in
\* descriptor order, the returned buffer, and the result of copy() called
\* after the sets, is the header followed by a data region holding, for each
\* field in order, a 4-byte length and that many payload bytes.
C4_BufferHoldsHeaderAndData ==
  \A b \in 1 .. Len(built) :
    (SetInOrder(history, b) /\ writes = 0) =>
      /\ HasLayout(heap[built[b].buffer], history, b)
      /\ \A c \in copyOf :
           (c.source = built[b].buffer /\ c.history = history) =>
             HasLayout(heap[c.copy], history, b)

-----------------------------------------------------------------------------
(* Claims about the registry, checked under RegistrySpec *)

\* The 32-bit integers at the start of the buffer of built[b].
HeaderOf(b) == Int32ArrayOf(heap[built[b].buffer], Len(built[b].ops)).val

\* The names in the order Object.keys gives a JS object whose keys were
\* first assigned in the order `names`: array indices ascending, then the rest.
RECURSIVE SortedIndexKeys(_)
SortedIndexKeys(S) ==
  IF S = {} THEN <<>>
  ELSE LET m == CHOOSE k \in S : \A j \in S : IndexValue(k) <= IndexValue(j)
       IN  << m >> \o SortedIndexKeys(S \ {m})

IsNameKey(k) == k \notin IndexKeys

KeyOrder(names) ==
  SortedIndexKeys({names[i] : i \in 1 .. Len(names)} \cap IndexKeys)
    \o SelectSeq(names, IsNameKey)

\* C9 as stated: the header of a buffer just created holds, per field, the
\* position of the field's type name in the order of first registration, and
\* registering a name again replaces the codec and moves no position.
C9_HeaderIsRegistrationOrder ==
  /\ last.op = "registerType" => Get(types, last.typeDef.name) = last.typeDef
  /\ (last.op = "createBuffer" /\ last.ok) =>
       HeaderOf(last.obj) =
         [i \in 1 .. Len(last.typeNames) |-> IndexOf(regOrder, last.typeNames[i])]

\* C9 as amended: the position is the one in the key order of the registry:
\* names that are array indices first, in ascending numeric order, then the
\* other names in the order of first registration.  Registering a name again
\* replaces the codec and moves no position.
C9_HeaderIsKeyOrder ==
  /\ Keys(types) = KeyOrder(regOrder)
  /\ last.op = "registerType" => Get(types, last.typeDef.name) = last.typeDef
  /\ (last.op = "createBuffer" /\ last.ok) =>
       HeaderOf(last.obj) =
         [i \in 1 .. Len(last.typeNames) |->
            IndexOf(KeyOrder(regOrder), last.typeNames[i])]

\* C9 witness: with "int8", "string" and "7" registered in that order, a
\* buffer of {x: string, y: int8} was created with header [2, 1], and "int8"
\* has just been registered again with another codec.
C9_Witness ==
  /\ last.op = "registerType" /\ last.typeDef = customInt8
  /\ regOrder = << "int8", "string", "7" >>
  /\ Keys(types) = << "7", "int8", "string" >>
  /\ Len(built) = 1
  /\ Values(built[1].descriptor) = << "string", "int8" >>
  /\ HeaderOf(1) = << 2, 1 >>

-----------------------------------------------------------------------------
(* Claims about copies, checked under WrapperSpec *)

\* C10: copy() returns a new buffer with the length and the bytes of the
\* wrapped buffer at the moment of the call, and no later step that changes
\* a byte of the original changes a byte of the copy, or the reverse.
C10_CopyIsIndependent ==
  [][/\ \A c \in copyOf' \ copyOf :
          /\ c.copy \notin 1 .. Len(heap)
          /\ c.copy \in 1 .. Len(heap')
          /\ heap'[c.copy] = heap[c.source]
          /\ \A i \in 1 .. Len(heap) : heap'[i] = heap[i]
     /\ \A c \in copyOf :
          /\ heap'[c.source] # heap[c.source] => heap'[c.copy] = heap[c.copy]
          /\ heap'[c.copy] # heap[c.copy] => heap'[c.source] = heap[c.source]]_vars

\* C10 witness: after copy(), a set through a wrapper accessor has written
\* into the original, and the copy no longer equals it.
C10_Witness ==
  \E c \in copyOf :
    /\ last.op = "wrappedSet" /\ last.ok
    /\ wrapped[last.obj].buffer = c.source
    /\ heap[c.copy] # heap[c.source]

-----------------------------------------------------------------------------
(* Claims about failing calls *)

HeaderInts(buf, n) == Int32ArrayOf(buf, n)

\* C12: a wrap call that succeeds gives its i-th accessor the codec of the
\* registry entry at the position the i-th header integer names, whatever
\* the descriptor declares.  A wrap call fails when a header integer it reads
\* is negative or not less than the number of registered types (and also when
\* the buffer is shorter than the integers it reads, or the entry named has
\* the empty name), and for no other reason; a failing call returns no
\* accessors and leaves the input buffer unchanged.
C12_HeaderDecidesCodecs ==
  [][/\ (last'.op = "wrap" /\ last'.ok) =>
          LET w == wrapped'[last'.obj]
              header == HeaderInts(heap[w.buffer], Len(w.ops))
          IN  /\ Len(w.ops) = Len(wrappers[w.wrapper].descr)
              /\ header.ok
              /\ \A i \in 1 .. Len(w.ops) :
                   /\ header.val[i] >= 0 /\ header.val[i] < Len(types)
                   /\ w.ops[i].val = Get(types, Keys(types)[header.val[i] + 1])
     /\ (last'.op = "wrap" /\ ~last'.ok) =>
          LET header == HeaderInts(heap[last'.input],
                                   Len(wrappers[last'.wrapper].descr))
          IN  /\ UNCHANGED << heap, wrapped >>
              /\ \/ ~header.ok
                 \/ \E i \in 1 .. Len(header.val) :
                      \/ header.val[i] < 0
                      \/ header.val[i] >= Len(types)
                      \/ Keys(types)[header.val[i] + 1] = ""]_vars

\* C12 witness: a wrap call has succeeded on a buffer whose header names
\* another type than the wrapper's descriptor declares, and the accessor has
\* the codec of the type the header names.
C12_Witness ==
  /\ last.op = "wrap" /\ last.ok
  /\ LET w == wrapped[last.obj]
     IN  /\ w.ops[1].val = int8
         /\ wrappers[w.wrapper].descriptor[1].val = ""

\* A wrap call has failed on a header integer out of range.
C12_FailureReached ==
  /\ last.op = "wrap" /\ ~last.ok
  /\ writes > 0
  /\ HeaderInts(heap[last.input], 1).ok

-----------------------------------------------------------------------------
(* Claims about concatenateArrayBuffers, checked under ConcatSpec *)

\* The sum of the lengths of the first n of the buffers with identities args.
RECURSIVE LengthBefore(_, _, _)
LengthBefore(h, args, n) ==
  IF n = 0 THEN 0 ELSE LengthBefore(h, args, n - 1) + Len(h[args[n]])

\* C13: concatenateArrayBuffers(b1, ..., bn) returns a new buffer; its length
\* is the sum of the lengths of the inputs, byte j of the i-th input is at
\* place (length of the inputs before it) + j, and no input is modified.
C13_ConcatenationInOrder ==
  [][last'.op = "concatenate" =>
       LET args == last'.buffers
           out == heap'[last'.result]
       IN  /\ last'.result \notin 1 .. Len(heap)
           /\ last'.result \in 1 .. Len(heap')
           /\ \A i \in 1 .. Len(heap) : heap'[i] = heap[i]
           /\ Len(out) = LengthBefore(heap, args, Len(args))
           /\ \A i \in 1 .. Len(args) : \A j \in 1 .. Len(heap[args[i]]) :
                out[LengthBefore(heap, args, i - 1) + j] = heap[args[i]][j]]_vars

\* C13 witness: [1,2,3] and [4,5,6] have been concatenated to [1,2,3,4,5,6].
C13_Witness ==
  /\ last.op = "concatenate"
  /\ heap[1] = << 1, 2, 3 >> /\ heap[2] = << 4, 5, 6 >>
  /\ last.buffers = << 1, 2 >>
  /\ heap[last.result] = << 1, 2, 3, 4, 5, 6 >>

-----------------------------------------------------------------------------
(* Claims about the wrapper accessors *)

\* C14: a successful set through a wrapper accessor writes, into the buffer
\* that was passed to the wrapper function, the 4-byte length of the payload
\* at the wrapper's cursor and the payload right after it, as a set through a
\* builder accessor does, and moves the wrapper's cursor by 4 + the payload
\* length.
C14_WrapperSetWritesLengthPrefix ==
  [][(last'.op = "wrappedSet" /\ last'.ok) =>
       LET w == last'.obj
           off == wrapped[w].offset
           bytes == serialize(Get(wrapped[w].ops, last'.key),
                              history'[Len(history')].val)
       IN  /\ heap'[wrapped[w].buffer] =
                WriteAt(WriteAt(heap[wrapped[w].buffer], off, SetInt32(Len(bytes))),
                        off + 4, bytes)
           /\ wrapped'[w].offset = off + 4 + Len(bytes)]_vars

\* C15: every invocation of a wrapper function, the first and the later
\* ones, that succeeds returns as many accessors as the descriptor given to
\* createWrapper has fields and starts its cursor right after as many header
\* integers; one that fails fails on those header integers alone.
C15_EveryInvocationAlike ==
  [][last'.op = "wrap" =>
       IF last'.ok
       THEN LET w == wrapped'[last'.obj]
                n == Len(wrappers[w.wrapper].descriptor)
            IN  Len(w.ops) = n /\ w.offset = 4 * n
       ELSE ~wrapperTypes(wrappers[last'.wrapper].descriptor, heap[last'.input]).ok]_vars

-----------------------------------------------------------------------------
(* Claims about the builder's cursor, checked under BuilderSpec *)

\* The payload of the i-th set of hist, by the accessors ops.
PayloadOf(hist, i, ops) == serialize(Get(ops, hist[i].key), hist[i].val)

\* C16: the cursor and the data buffer are the builder's, shared by every
\* buffer it creates.  No call moves the cursor back or changes a byte below
\* it; createBuffer leaves both as they are; a successful set, through the
\* accessors of whichever buffer, writes its length prefix at the cursor and
\* moves the cursor by 4 + the payload length; the first set of a build
\* function writes its length prefix at the cursor the builder had.
C16_SharedCursor ==
  [][/\ offset' >= offset
     /\ SubSeq(buffer', 1, offset) = SubSeq(buffer, 1, offset)
     /\ last'.op = "createBuffer" => UNCHANGED << buffer, offset >>
     /\ (last'.op = "set" /\ last'.ok) =>
          LET bytes == PayloadOf(history', Len(history'), built[last'.obj].ops)
          IN  /\ SubSeq(buffer', offset + 1, offset + 4) = SetInt32(Len(bytes))
              /\ SubSeq(buffer', offset + 5, offset + 4 + Len(bytes)) = bytes
              /\ offset' = offset + 4 + Len(bytes)
     /\ (last'.op = "build" /\ last'.ok /\ Len(history') > Len(history)) =>
          LET bytes == PayloadOf(history', Len(history) + 1, built'[last'.obj].ops)
          IN  /\ SubSeq(buffer', offset + 1, offset + 4) = SetInt32(Len(bytes))
              /\ SubSeq(buffer', offset + 5, offset + 4 + Len(bytes)) = bytes]_vars

\* C16 witness: a set through the accessors of the first buffer moved the
\* cursor to n, and the set just made through the accessors of the second
\* buffer, created since, wrote its length prefix at n.
C16_Witness ==
  /\ last.op = "set" /\ last.ok /\ last.obj = 2
  /\ Len(history) = 2 /\ history[1].obj = 1 /\ history[1].ok
  /\ LET n == 4 + Len(PayloadOf(history, 1, built[1].ops))
         bytes == PayloadOf(history, 2, built[2].ops)
     IN  /\ n > 0
         /\ SubSeq(buffer, n + 1, n + 4) = SetInt32(Len(bytes))
         /\ offset = n + 4 + Len(bytes)

\* C17: the cursor is always within 0 .. capacity and the data buffer keeps
\* its capacity.  A set succeeds exactly when its 4-byte length prefix and
\* its payload fit in the bytes from the cursor to the end; one that does not
\* fit fails and leaves the cursor where it was, and changes no byte but the
\* four at the cursor, which may hold the length prefix already.
C17_CursorWithinCapacity ==
  [][/\ offset' \in 0 .. bufferSize
     /\ Len(buffer') = bufferSize
     /\ last'.op = "set" =>
          LET bytes == PayloadOf(history', Len(history'), built[last'.obj].ops)
              fits == offset + 4 + Len(bytes) <= bufferSize
          IN  /\ last'.ok <=> fits
              /\ ~fits =>
                   /\ offset' = offset
                   /\ \A i \in 1 .. bufferSize :
                        (i <= offset \/ i > offset + 4) => buffer'[i] = buffer[i]
     /\ (last'.op = "build" /\ ~last'.ok) =>
          /\ offset' <= bufferSize
          /\ Len(history') > Len(history) => ~history'[Len(history')].ok]_vars

\* C17 witness: with the cursor at the capacity, a set has just failed.
C17_Witness ==
  /\ last.op = "set" /\ ~last.ok
  /\ offset = bufferSize
  /\ Len(history) = 3 /\ history[1].ok /\ history[2].ok /\ ~history[3].ok

\* A set has failed after setUint32 wrote the length prefix at the cursor.
C17_PrefixLeftBehind ==
  /\ last.op = "set" /\ ~last.ok
  /\ offset + 4 <= bufferSize
  /\ SubSeq(buffer, offset + 1, offset + 4) # << 0, 0, 0, 0 >>

====
